---- MODULE Spec2Model ----
(***************************************************************************)
(* Model of komootgpx/imagedownload.py: ImageDownloaderWithExif.           *)
(*                                                                         *)
(* download_and_save is a straight-line procedure whose steps can each     *)
(* raise; the model gives every step one action and keeps the files the    *)
(* procedure touches (the temporary file and the file at output_path) as   *)
(* state.  The arithmetic of _gps_exif and _to_dms_rational is Python      *)
(* float arithmetic (IEEE 754 binary64, round to nearest, ties to even);   *)
(* it is modelled exactly, on fixed-point numbers of NLimbs limbs.         *)
(***************************************************************************)
EXTENDS Integers, Sequences, FiniteSets, TLC

(***************************************************************************)
(* Exact binary arithmetic.  A magnitude is a sequence of NLimbs limbs,    *)
(* least significant first, each in 0 .. Base-1, read as an integer count  *)
(* of units of 2^-FracBits.  Every binary64 value that the modelled code   *)
(* produces from the inputs below (|value| < 2^30, and a multiple of       *)
(* 2^-60) is such a magnitude, so no rounding other than the rounding of   *)
(* binary64 itself happens in the model.                                   *)
(***************************************************************************)
Base == 2^15
LimbBits == 5 * 3
BigZero == <<0, 0, 0, 0, 0, 0>>
NLimbs == Len(BigZero)
FracLimbs == NLimbs - 2
FracBits == FracLimbs * LimbBits

\* Significand width of a Python float (binary64).
MantBits == 53

RECURSIVE CarryFrom(_, _, _)
CarryFrom(s, i, c) ==
    IF i > Len(s) THEN <<>>
    ELSE LET v == s[i] + c
         IN  <<v % Base>> \o CarryFrom(s, i + 1, (v - (v % Base)) \div Base)

BigAdd(A, B) == CarryFrom([i \in 1..NLimbs |-> A[i] + B[i]], 1, 0)
\* A - B, for A >= B
BigSub(A, B) == CarryFrom([i \in 1..NLimbs |-> A[i] - B[i]], 1, 0)
\* A * c, for 0 <= c < Base
BigMulSmall(A, c) == CarryFrom([i \in 1..NLimbs |-> A[i] * c], 1, 0)

BigLess(A, B) ==
    \E i \in 1..NLimbs :
        /\ A[i] < B[i]
        /\ \A j \in (i+1)..NLimbs : A[j] = B[j]

BigIsZero(A) == \A i \in 1..NLimbs : A[i] = 0

\* the integer n (0 <= n < Base^2) as a magnitude
BigFromInt(n) ==
    [i \in 1..NLimbs |->
        IF i = FracLimbs + 1 THEN n % Base
        ELSE IF i = FracLimbs + 2 THEN n \div Base
        ELSE 0]

\* the integer part of a magnitude
BigFloor(A) == A[FracLimbs + 1] + A[FracLimbs + 2] * Base

RECURSIVE BitLenInt(_)
BitLenInt(n) == IF n = 0 THEN 0 ELSE 1 + BitLenInt(n \div 2)

BitLen(A) ==
    IF BigIsZero(A) THEN 0
    ELSE LET top == CHOOSE i \in 1..NLimbs :
                        A[i] # 0 /\ \A j \in (i+1)..NLimbs : A[j] = 0
         IN  (top - 1) * LimbBits + BitLenInt(A[top])

\* bit j (counted from 0) of a magnitude
BigBit(A, j) == (A[(j \div LimbBits) + 1] \div 2^(j % LimbBits)) % 2

\* some bit below bit j is set
BigLowNonzero(A, j) ==
    \/ \E i \in 1..(j \div LimbBits) : A[i] # 0
    \/ A[(j \div LimbBits) + 1] % 2^(j % LimbBits) # 0

\* A with its k low bits cleared
BigClearLow(A, k) ==
    [i \in 1..NLimbs |->
        IF i <= k \div LimbBits THEN 0
        ELSE IF i = (k \div LimbBits) + 1
             THEN A[i] - (A[i] % 2^(k % LimbBits))
             ELSE A[i]]

BigPow2(k) ==
    [i \in 1..NLimbs |-> IF i = (k \div LimbBits) + 1 THEN 2^(k % LimbBits) ELSE 0]

(***************************************************************************)
(* Rounding of an exact result to binary64: the nearest value with at most *)
(* MantBits significant bits, ties to even.  sticky says that the exact    *)
(* result has a nonzero part below the magnitude's last bit (a quotient's  *)
(* remainder).                                                             *)
(***************************************************************************)
RoundSig(A, sticky) ==
    LET L == BitLen(A)
        k == L - MantBits
    IN  IF k <= 0 THEN A
        ELSE LET half == BigBit(A, k - 1) = 1
                 low  == BigLowNonzero(A, k - 1) \/ sticky
                 odd  == BigBit(A, k) = 1
                 down == BigClearLow(A, k)
             IN  IF half /\ (low \/ odd) THEN BigAdd(down, BigPow2(k)) ELSE down

\* long division of a magnitude by den (0 < den < Base), limb i downwards
RECURSIVE DivFrom(_, _, _, _)
DivFrom(A, den, i, rem) ==
    IF i = 0 THEN [q |-> <<>>, r |-> rem]
    ELSE LET cur  == rem * Base + A[i]
             rest == DivFrom(A, den, i - 1, cur % den)
         IN  [q |-> Append(rest.q, cur \div den), r |-> rest.r]

(***************************************************************************)
(* Python floats: [neg, mag].  Python ints are TLA+ integers.              *)
(***************************************************************************)
FloatOfInt(n) ==
    [neg |-> n < 0, mag |-> BigFromInt(IF n < 0 THEN 0 - n ELSE n)]

\* a / b correctly rounded (int true division, and the parse of a decimal
\* literal a/b): 0 <= |a| < Base^2, 0 < b < Base
FloatDiv(a, b) ==
    LET d == DivFrom(BigFromInt(IF a < 0 THEN 0 - a ELSE a), b, NLimbs, 0)
    IN  [neg |-> a < 0, mag |-> RoundSig(d.q, d.r # 0)]

\* x * c for a float x and an int c, 0 <= c < Base
FloatMulInt(x, c) ==
    [neg |-> x.neg, mag |-> RoundSig(BigMulSmall(x.mag, c), FALSE)]

\* x - y for floats x >= 0, y >= 0
FloatSub(x, y) ==
    IF BigLess(x.mag, y.mag)
    THEN [neg |-> TRUE,  mag |-> RoundSig(BigSub(y.mag, x.mag), FALSE)]
    ELSE [neg |-> FALSE, mag |-> RoundSig(BigSub(x.mag, y.mag), FALSE)]

FloatAbs(x) == [neg |-> FALSE, mag |-> x.mag]

\* int(x): truncation toward zero
FloatInt(x) == IF x.neg THEN 0 - BigFloor(x.mag) ELSE BigFloor(x.mag)

\* x >= 0
FloatGeZero(x) == ~x.neg \/ BigIsZero(x.mag)

\* _to_dms_rational with the degrees taken from deg, not from abs(deg)
_to_dms_rational_signed(deg) ==
    LET deg_abs == FloatAbs(deg)
        d == FloatInt(deg)
        frac == FloatSub(deg_abs, FloatOfInt(FloatInt(deg_abs)))
        m == FloatInt(FloatMulInt(frac, 60))
        s == FloatMulInt(FloatSub(frac, FloatDiv(m, 60)), 3600)
    IN  << <<d, 1>>, <<m, 1>>, <<FloatInt(FloatMulInt(s, 100)), 100>> >>

(***************************************************************************)
(* _to_dms_rational(deg)                                                   *)
(***************************************************************************)
_to_dms_rational(deg) ==
    LET deg_abs == FloatAbs(deg)
        d == FloatInt(deg_abs)
        frac == FloatSub(deg_abs, FloatOfInt(d))
        m == FloatInt(FloatMulInt(frac, 60))
        s == FloatMulInt(FloatSub(frac, FloatDiv(m, 60)), 3600)
    IN  << <<d, 1>>, <<m, 1>>, <<FloatInt(FloatMulInt(s, 100)), 100>> >>

(***************************************************************************)
(* Python values.  A dict is a function on its keys; None is PyNone; a     *)
(* str is a string and bytes are a tagged string; a str with several parts *)
(* that the code inspects (a URL, a header value) is a sequence of pieces. *)
(***************************************************************************)
PyNone == "<None>"
EmptyDict == <<>>
Get(d, k, default) == IF k \in DOMAIN d THEN d[k] ELSE default
TruthyStr(s) == s # PyNone /\ s # ""
TruthyDict(d) == DOMAIN d # {}
Utf8(s) == [bytes |-> s]

LowerPiece(p) ==
    CASE p = ".PNG" -> ".png"
      [] p = "IMAGE/PNG" -> "image/png"
      [] p = "Image/Jpeg" -> "image/jpeg"
      [] OTHER -> p
Lower(str) == [i \in 1..Len(str) |-> LowerPiece(str[i])]
EndsWith(str, piece) == Len(str) > 0 /\ str[Len(str)] = piece
Contains(str, piece) == \E i \in 1..Len(str) : str[i] = piece

VARIABLES
    args,             \* the constructor's arguments: image_data, title, creator
    self,             \* the object's fields
    server,           \* the answer of the image host to the GET
    api,              \* the answer of api.fetch_highlight
    out_fs,           \* the filesystem output_path lies on
    out_before,       \* the file at output_path before the call
    pc,               \* the position in download_and_save
    image_bytes,
    is_png,
    exif_bytes,
    tmp_file,         \* the file at tmp_name
    out_file,         \* the file at output_path
    error,            \* the exception that ended the call
    highlight_calls,  \* the calls of api.fetch_highlight
    gps_ifd,          \* the value returned by a call of _gps_exif
    location_json     \* the decimal literals image_data's location was parsed from

vars == <<args, self, server, api, out_fs, out_before, pc, image_bytes, is_png,
          exif_bytes, tmp_file, out_file, error, highlight_calls, gps_ifd,
          location_json>>

(***************************************************************************)
(* __init__                                                                *)
(***************************************************************************)
__init__(image_data, title, creator) ==
    [id |-> image_data["id"],
     name |-> Get(image_data, "name", title),
     src |-> image_data["src"],
     created_at |-> image_data["created_at"],
     location |-> Get(image_data, "location", EmptyDict),
     creator_display_name |->
        Get(Get(Get(image_data, "_embedded", EmptyDict), "creator", EmptyDict),
            "display_name", creator),
     highlight_id |-> Get(image_data, "highlight_id", PyNone)]

(***************************************************************************)
(* _strip_url_params and _download_image_bytes                             *)
(***************************************************************************)
\* urlparse(url)._replace(query="").geturl(): the query goes, the fragment stays
_strip_url_params(url) ==
    url.path \o (IF url.fragment = <<>> THEN <<>> ELSE <<"#">> \o url.fragment)

\* line 71-72
DetectPng(headers, url) ==
    LET content_type == Lower(Get(headers, "Content-Type", <<>>))
    IN  Contains(content_type, "image/png") \/ EndsWith(Lower(url), ".png")

\* Response.raise_for_status(): 4xx and 5xx raise HTTPError
RaisesForStatus(status) == 400 <= status /\ status < 600

(***************************************************************************)
(* _gps_exif and _build_exif                                               *)
(***************************************************************************)
\* lat >= 0 and _to_dms_rational(lat) on a missing (None) coordinate: TypeError
GpsTypeError(location) ==
    TruthyDict(location) /\ ~({"lat", "lng"} \subseteq DOMAIN location)

\* _gps_exif that writes the altitude only when the record has one
_gps_exif_no_default_alt(location) ==
    IF ~TruthyDict(location) THEN EmptyDict
    ELSE LET lat == location["lat"]
             lng == location["lng"]
         IN  [GPSLatitudeRef  |-> IF FloatGeZero(lat) THEN "N" ELSE "S",
              GPSLatitude     |-> _to_dms_rational(lat),
              GPSLongitudeRef |-> IF FloatGeZero(lng) THEN "E" ELSE "W",
              GPSLongitude    |-> _to_dms_rational(lng)]
             @@
             (IF "alt" \in DOMAIN location
              THEN [GPSAltitudeRef |-> 0,
                    GPSAltitude |-> <<FloatInt(FloatMulInt(location["alt"], 100)), 100>>]
              ELSE EmptyDict)

_gps_exif(location) ==
    IF ~TruthyDict(location) THEN EmptyDict
    ELSE LET lat == location["lat"]
             lng == location["lng"]
             alt == Get(location, "alt", FloatOfInt(0))
         IN  [GPSLatitudeRef  |-> IF FloatGeZero(lat) THEN "N" ELSE "S",
              GPSLatitude     |-> _to_dms_rational(lat),
              GPSLongitudeRef |-> IF FloatGeZero(lng) THEN "E" ELSE "W",
              GPSLongitude    |-> _to_dms_rational(lng),
              GPSAltitudeRef  |-> 0,
              GPSAltitude     |-> <<FloatInt(FloatMulInt(alt, 100)), 100>>]

\* datetime.strptime(created_at, "%Y-%m-%dT%H:%M:%S.%fZ") raises ValueError
StrptimeRaises(created_at) == created_at \notin {"2024-06-01T12:00:00.000000Z"}

\* the timestamp in the zone UTC (the constructor's default), as
\* "%Y:%m:%d %H:%M:%S"
_format_created_at_local(created_at) ==
    CASE created_at = "2024-06-01T12:00:00.000000Z" -> "2024:06:01 12:00:00"

\* _build_exif that writes both text keys whatever their values
_build_exif_always_keys(s) ==
    LET created_exif == _format_created_at_local(s.created_at)
    IN  [ifd0 |-> [ImageDescription |-> Utf8(IF s.name = PyNone THEN "" ELSE s.name),
                   Artist |-> Utf8(IF s.creator_display_name = PyNone
                                    THEN "" ELSE s.creator_display_name)],
         Exif |-> [DateTimeOriginal |-> created_exif,
                   DateTimeDigitized |-> created_exif],
         GPS |-> _gps_exif(s.location),
         ifd1 |-> EmptyDict]

_build_exif(s) ==
    LET created_exif == _format_created_at_local(s.created_at)
    IN  [ifd0 |->
            (IF TruthyStr(s.name)
                THEN [ImageDescription |-> Utf8(s.name)] ELSE EmptyDict)
            @@
            (IF TruthyStr(s.creator_display_name)
                THEN [Artist |-> Utf8(s.creator_display_name)] ELSE EmptyDict),
         Exif |-> [DateTimeOriginal |-> created_exif,
                   DateTimeDigitized |-> created_exif],
         GPS |-> _gps_exif(s.location),
         ifd1 |-> EmptyDict]

\* piexif.dump packs both parts of a Rational as unsigned 32-bit integers
\* (struct.pack(">L", ...)): a negative numerator raises struct.error
DumpRaises(exif_dict) ==
    /\ "GPSAltitude" \in DOMAIN exif_dict.GPS
    /\ exif_dict.GPS["GPSAltitude"][1] < 0

(***************************************************************************)
(* Files                                                                   *)
(***************************************************************************)
NoBytes == [fmt |-> "none", orig |-> FALSE]
NoExif == <<>>
Absent == [kind |-> "absent"]
Prior == [kind |-> "prior"]
FileOf(img, whole, exif) ==
    [kind |-> "file", img |-> img, whole |-> whole, exif |-> exif]

\* tempfile.NamedTemporaryFile is given no dir: the file is made in
\* tempfile.gettempdir()
TmpFs == "tmp"

(***************************************************************************)
(* Inputs.  A coordinate or altitude arrives as a decimal literal num/den  *)
(* and is parsed to the nearest float.                                     *)
(***************************************************************************)
Lit(num, den) == <<num, den>>
Parse(lit) == FloatDiv(lit[1], lit[2])
ParseDict(d) == [k \in DOMAIN d |-> Parse(d[k])]

\* subdivisions of a degree in the latitude and longitude grids, and of a
\* metre in the altitude grid
LatSteps == 60
LngSteps == 8
AltSteps == 100
\* subdivisions of a degree in the grid of decimal longitudes
DecSteps == 100

Timestamps == {"2024-06-01T12:00:00.000000Z", "yesterday"}

Urls ==
    { [path |-> <<"https://photos.example/img/1">>,
       query |-> <<"width=", "800">>, fragment |-> <<>>],
      [path |-> <<"https://photos.example/a", ".png">>,
       query |-> <<>>, fragment |-> <<>>],
      [path |-> <<"https://photos.example/a", ".PNG">>,
       query |-> <<"w=1">>, fragment |-> <<>>],
      [path |-> <<"https://photos.example/a", ".jpg">>,
       query |-> <<"f=b", ".png">>, fragment |-> <<>>],
      [path |-> <<"https://photos.example/a", ".png">>,
       query |-> <<>>, fragment |-> <<"top">>] }

HeaderSets ==
    { EmptyDict,
      "Content-Type" :> <<"image/jpeg">>,
      "Content-Type" :> <<"image/png">>,
      "Content-Type" :> <<"IMAGE/PNG">> }

Servers ==
    { [status |-> 200, headers |-> h, content |-> c] :
        h \in HeaderSets, c \in {"jpeg", "png", "other"} }
    \cup
    { [status |-> st, headers |-> "Content-Type" :> <<"text/html">>,
       content |-> "other"] : st \in {404, 500} }

\* what api.fetch_highlight returns when it returns
Highlights ==
    { b @@ e :
        b \in { EmptyDict, [base_name |-> ""], [base_name |-> "Gipfel"] },
        e \in { EmptyDict,
                [_embedded |-> EmptyDict],
                [_embedded |-> [creator |-> EmptyDict]],
                [_embedded |-> [creator |-> [display_name |-> "Cy"]]] } }

NameParts == { EmptyDict, [name |-> ""], [name |-> "Foto"] }
CreatorParts ==
    { EmptyDict,
      [_embedded |-> [creator |-> EmptyDict]],
      [_embedded |-> [creator |-> [display_name |-> ""]]],
      [_embedded |-> [creator |-> [display_name |-> "Ann"]]] }
HighlightParts == { EmptyDict, [highlight_id |-> "4711"] }
Defaults == { [title |-> "", creator |-> ""], [title |-> "Tour", creator |-> "Me"] }

\* the location of a record, as literals; NoLocation: the key is missing
NoLocation == [missing |-> TRUE]
Locations ==
    { NoLocation,
      EmptyDict,
      [lat |-> Lit(475, 10), lng |-> Lit(1125, 100)],
      [lat |-> Lit(0 - 33875, 1000), lng |-> Lit(0 - 701, 10), alt |-> Lit(52025, 100)],
      [lat |-> Lit(101, 10)],
      [lat |-> Lit(613, 8), lng |-> Lit(7, 10), alt |-> Lit(0 - 55, 10)] }

LocationPart(loc) ==
    IF loc = NoLocation THEN EmptyDict ELSE [location |-> ParseDict(loc)]

ImageData(namePart, creatorPart, highlightPart, loc, url, ts) ==
    [id |-> "img1", src |-> url, created_at |-> ts]
        @@ namePart @@ creatorPart @@ highlightPart @@ LocationPart(loc)

JpegServer ==
    [status |-> 200, headers |-> "Content-Type" :> <<"image/jpeg">>, content |-> "jpeg"]
PlainUrl ==
    [path |-> <<"https://photos.example/img/1">>,
     query |-> <<"width=", "800">>, fragment |-> <<>>]

\* the state after construction, before download_and_save is called
Constructed(image_data, dflt, loc, srv, hl, fs, before) ==
    /\ args = [image_data |-> image_data, title |-> dflt.title, creator |-> dflt.creator]
    /\ self = __init__(image_data, dflt.title, dflt.creator)
    /\ location_json = loc
    /\ server = srv
    /\ api = hl
    /\ out_fs = fs
    /\ out_before = before
    /\ out_file = before
    /\ tmp_file = Absent
    /\ image_bytes = NoBytes
    /\ is_png = FALSE
    /\ exif_bytes = NoExif
    /\ error = "none"
    /\ highlight_calls = 0
    /\ gps_ifd = EmptyDict

\* records, defaults and highlights of every shape, fetched from a host
\* that answers with a JPEG
InitRecords ==
    \E n \in NameParts, c \in CreatorParts, h \in HighlightParts,
       loc \in Locations, ts \in Timestamps, dflt \in Defaults :
        \E hl \in (IF h = EmptyDict THEN {EmptyDict} ELSE Highlights) :
            /\ Constructed(ImageData(n, c, h, loc, PlainUrl, ts), dflt, loc,
                           JpegServer, hl, TmpFs, Absent)
            /\ pc = "download"

\* one plain record, fetched from hosts and URLs of every shape and saved
\* to either filesystem, over a file or not
InitHosts ==
    \E srv \in Servers, url \in Urls, fs \in {TmpFs, "home"},
       before \in {Absent, Prior} :
        /\ Constructed(ImageData([name |-> "Foto"], EmptyDict, EmptyDict,
                                 NoLocation, url, "2024-06-01T12:00:00.000000Z"),
                       [title |-> "", creator |-> ""], NoLocation,
                       srv, EmptyDict, fs, before)
        /\ pc = "download"

Init == InitRecords \/ InitHosts

(***************************************************************************)
(* download_and_save, step by step                                         *)
(***************************************************************************)
Raise(e) == pc' = "failed" /\ error' = e

\* line 43 and line 48: where the call goes on after the download
AfterHighlight(png) == IF png THEN "png_to_jpeg" ELSE "build_exif"
AfterDownload(s, png) ==
    IF TruthyStr(s.highlight_id) THEN "fetch_highlight" ELSE AfterHighlight(png)

\* line 42: image_bytes, is_png = self._download_image_bytes()
DownloadImageBytes ==
    /\ pc = "download"
    /\ \/ /\ Raise("ConnectionError")          \* requests.get: timeout, no route
          /\ UNCHANGED <<image_bytes, is_png>>
       \/ /\ RaisesForStatus(server.status)
          /\ Raise("HTTPError")
          /\ UNCHANGED <<image_bytes, is_png>>
       \/ /\ ~RaisesForStatus(server.status)
          /\ image_bytes' = [fmt |-> server.content, orig |-> TRUE]
          /\ is_png' = DetectPng(server.headers, _strip_url_params(self.src))
          /\ pc' = AfterDownload(self, is_png')
          /\ UNCHANGED error
    /\ UNCHANGED <<args, self, server, api, out_fs, out_before, exif_bytes,
                   tmp_file, out_file, highlight_calls, gps_ifd, location_json>>

\* lines 45-46 with the record's own values as the defaults
ApplyHighlight_keep_own(s, highlight) ==
    [s EXCEPT
        !.name = Get(highlight, "base_name", s.name),
        !.creator_display_name =
            Get(Get(Get(highlight, "_embedded", EmptyDict), "creator", EmptyDict),
                "display_name", s.creator_display_name)]

\* lines 45-46
ApplyHighlight(s, highlight) ==
    [s EXCEPT
        !.name = Get(highlight, "base_name", ""),
        !.creator_display_name =
            Get(Get(Get(highlight, "_embedded", EmptyDict), "creator", EmptyDict),
                "display_name", "")]

\* lines 43-46
FetchHighlight ==
    /\ pc = "fetch_highlight"
    /\ highlight_calls' = highlight_calls + 1
    /\ \/ /\ Raise("HighlightError")
          /\ UNCHANGED self
       \/ /\ self' = ApplyHighlight(self, api)
          /\ pc' = AfterHighlight(is_png)
          /\ UNCHANGED error
    /\ UNCHANGED <<args, server, api, out_fs, out_before, image_bytes, is_png,
                   exif_bytes, tmp_file, out_file, gps_ifd, location_json>>

\* lines 48-49: Image.open reads PNG and JPEG alike and raises on anything else
PngToJpeg ==
    /\ pc = "png_to_jpeg"
    /\ \/ /\ image_bytes.fmt = "other"
          /\ Raise("UnidentifiedImageError")
          /\ UNCHANGED image_bytes
       \/ /\ image_bytes.fmt # "other"
          /\ image_bytes' = [fmt |-> "jpeg", orig |-> FALSE]
          /\ pc' = "build_exif"
          /\ UNCHANGED error
    /\ UNCHANGED <<args, self, server, api, out_fs, out_before, is_png,
                   exif_bytes, tmp_file, out_file, highlight_calls, gps_ifd,
                   location_json>>

\* line 51: exif_bytes = self._build_exif()
BuildExif ==
    /\ pc = "build_exif"
    /\ \/ /\ StrptimeRaises(self.created_at)
          /\ Raise("ValueError")
          /\ UNCHANGED exif_bytes
       \/ /\ ~StrptimeRaises(self.created_at)
          /\ GpsTypeError(self.location)
          /\ Raise("TypeError")
          /\ UNCHANGED exif_bytes
       \/ /\ ~StrptimeRaises(self.created_at)
          /\ ~GpsTypeError(self.location)
          /\ DumpRaises(_build_exif(self))
          /\ Raise("struct.error")
          /\ UNCHANGED exif_bytes
       \/ /\ ~StrptimeRaises(self.created_at)
          /\ ~GpsTypeError(self.location)
          /\ ~DumpRaises(_build_exif(self))
          /\ exif_bytes' = _build_exif(self)
          /\ pc' = "tmp_write"
          /\ UNCHANGED error
    /\ UNCHANGED <<args, self, server, api, out_fs, out_before, image_bytes,
                   is_png, tmp_file, out_file, highlight_calls, gps_ifd,
                   location_json>>

\* lines 54-57: the file is made with delete=False, so leaving the with
\* block closes it and never removes it
TempWrite ==
    /\ pc = "tmp_write"
    /\ \/ /\ Raise("OSError")                   \* the file cannot be made
          /\ UNCHANGED tmp_file
       \/ /\ tmp_file' = FileOf(image_bytes, FALSE, NoExif)
          /\ Raise("OSError")                   \* write or flush fails
       \/ /\ tmp_file' = FileOf(image_bytes, TRUE, NoExif)
          /\ pc' = "insert"
          /\ UNCHANGED error
    /\ UNCHANGED <<args, self, server, api, out_fs, out_before, image_bytes,
                   is_png, exif_bytes, out_file, highlight_calls, gps_ifd,
                   location_json>>

\* line 59: piexif.insert(exif_bytes, tmp_name) takes JPEG data only, and
\* writes the file anew in place
ExifInsert ==
    /\ pc = "insert"
    /\ \/ /\ tmp_file.img.fmt # "jpeg"
          /\ Raise("InvalidImageDataError")
          /\ UNCHANGED tmp_file
       \/ /\ tmp_file.img.fmt = "jpeg"
          /\ tmp_file' = FileOf(tmp_file.img, FALSE, exif_bytes)
          /\ Raise("OSError")
       \/ /\ tmp_file.img.fmt = "jpeg"
          /\ tmp_file' = FileOf(tmp_file.img, TRUE, exif_bytes)
          /\ pc' = "move"
          /\ UNCHANGED error
    /\ UNCHANGED <<args, self, server, api, out_fs, out_before, image_bytes,
                   is_png, exif_bytes, out_file, highlight_calls, gps_ifd,
                   location_json>>

(***************************************************************************)
(* line 60: shutil.move(tmp_name, output_path).  It tries os.rename, which *)
(* is atomic and works within one filesystem only; on OSError it copies    *)
(* the file to output_path (copy2) and then unlinks tmp_name.              *)
(***************************************************************************)
Move ==
    /\ pc = "move"
    /\ \/ /\ out_fs = TmpFs
          /\ out_file' = tmp_file
          /\ tmp_file' = Absent
          /\ pc' = "done"
       \/ /\ pc' = "copy"                        \* os.rename raised OSError
          /\ UNCHANGED <<out_file, tmp_file>>
    /\ UNCHANGED <<args, self, server, api, out_fs, out_before, image_bytes,
                   is_png, exif_bytes, error, highlight_calls, gps_ifd,
                   location_json>>

\* copy2 opens output_path for writing, which empties it.  Within one
\* filesystem os.rename fails only where output_path cannot be written, and
\* there the open fails as well.
MoveCopyOpen ==
    /\ pc = "copy"
    /\ \/ /\ Raise("OSError")
          /\ UNCHANGED out_file
       \/ /\ out_fs # TmpFs
          /\ out_file' = FileOf(tmp_file.img, FALSE, tmp_file.exif)
          /\ pc' = "copying"
          /\ UNCHANGED error
    /\ UNCHANGED <<args, self, server, api, out_fs, out_before, image_bytes,
                   is_png, exif_bytes, tmp_file, highlight_calls, gps_ifd,
                   location_json>>

\* copy2 writes the data
MoveCopyWrite ==
    /\ pc = "copying"
    /\ \/ /\ Raise("OSError")
          /\ UNCHANGED out_file
       \/ /\ out_file' = tmp_file
          /\ pc' = "unlink"
          /\ UNCHANGED error
    /\ UNCHANGED <<args, self, server, api, out_fs, out_before, image_bytes,
                   is_png, exif_bytes, tmp_file, highlight_calls, gps_ifd,
                   location_json>>

\* os.unlink(tmp_name)
MoveUnlink ==
    /\ pc = "unlink"
    /\ \/ /\ Raise("OSError")
          /\ UNCHANGED tmp_file
       \/ /\ tmp_file' = Absent
          /\ pc' = "done"
          /\ UNCHANGED error
    /\ UNCHANGED <<args, self, server, api, out_fs, out_before, image_bytes,
                   is_png, exif_bytes, out_file, highlight_calls, gps_ifd,
                   location_json>>

Next ==
    \/ DownloadImageBytes
    \/ FetchHighlight
    \/ PngToJpeg
    \/ BuildExif
    \/ TempWrite
    \/ ExifInsert
    \/ Move
    \/ MoveCopyOpen
    \/ MoveCopyWrite
    \/ MoveUnlink

Spec == Init /\ [][Next]_vars

(***************************************************************************)
(* _gps_exif on its own: a call of self._gps_exif() on records whose       *)
(* coordinates and altitudes run over grids.                               *)
(***************************************************************************)
LatGrid == { Lit(n, LatSteps) : n \in (0 - 90 * LatSteps) .. (90 * LatSteps) }
LngGrid == { Lit(n, LngSteps) : n \in (0 - 180 * LngSteps) .. (180 * LngSteps) }
DecGrid == { Lit(n, DecSteps) : n \in (0 - 180 * DecSteps) .. (180 * DecSteps) }
AltGrid ==
    { Lit(n, AltSteps) : n \in (0 - 3 * AltSteps) .. (12 * AltSteps) }
    \cup { Lit(884886, 100), Lit(2962, 1), Lit(0 - 4305, 10) }

GpsLocations ==
    { [lat |-> la, lng |-> Lit(0 - 1226, 10)] : la \in LatGrid }
    \cup { [lat |-> Lit(0 - 475, 10), lng |-> lo] : lo \in LngGrid }
    \cup { [lat |-> Lit(475, 10), lng |-> lo] : lo \in DecGrid }
    \cup { [lat |-> Lit(613, 8), lng |-> Lit(7, 10), alt |-> al] : al \in AltGrid }
    \cup { EmptyDict, [lat |-> Lit(101, 10)], [lng |-> Lit(5, 1), alt |-> Lit(1, 1)] }

GpsInit ==
    \E loc \in GpsLocations :
        /\ Constructed(ImageData([name |-> "Foto"], EmptyDict, EmptyDict, loc,
                                 PlainUrl, "2024-06-01T12:00:00.000000Z"),
                       [title |-> "", creator |-> ""], loc,
                       JpegServer, EmptyDict, TmpFs, Absent)
        /\ pc = "gps_exif"

\* line 121: self._gps_exif()
GpsExif ==
    /\ pc = "gps_exif"
    /\ \/ /\ GpsTypeError(self.location)
          /\ Raise("TypeError")
          /\ UNCHANGED gps_ifd
       \/ /\ ~GpsTypeError(self.location)
          /\ gps_ifd' = _gps_exif(self.location)
          /\ pc' = "gps_return"
          /\ UNCHANGED error
    /\ UNCHANGED <<args, self, server, api, out_fs, out_before, image_bytes,
                   is_png, exif_bytes, tmp_file, out_file, highlight_calls,
                   location_json>>

GpsNext == GpsExif

GpsSpec == GpsInit /\ [][GpsNext]_vars

(***************************************************************************)
(* Properties of download_and_save (specification Spec)                    *)
(***************************************************************************)
Terminated == pc \in {"done", "failed"}
Built == exif_bytes # NoExif
HasHighlight == "highlight_id" \in DOMAIN args.image_data

\* C1: a call that fails leaves no file at output_path when none was there
\* before, and a non-success HTTP status ends the call with the fetch error
\* before any later step has run.
C1_FailureLeavesNoOutput ==
    /\ (pc = "failed" /\ out_before = Absent) => out_file = Absent
    /\ (pc = "download" /\ RaisesForStatus(server.status)) => out_file = out_before
    /\ (pc = "failed" /\ RaisesForStatus(server.status)) =>
          /\ error \in {"HTTPError", "ConnectionError"}
          /\ image_bytes = NoBytes
          /\ highlight_calls = 0
          /\ exif_bytes = NoExif
          /\ tmp_file = Absent
          /\ out_file = out_before

\* C2: when the call has ended, by returning or by raising, no temporary
\* file is left at its temporary place.
C2_NoTempFileLeft == Terminated => tmp_file = Absent

\* C3: the temporary file lies on the filesystem of output_path, and the
\* file at output_path is at every moment what it was before the call or the
\* whole image with its metadata block.
C3_OutputNeverPartial ==
    /\ tmp_file # Absent => out_fs = TmpFs
    /\ \/ out_file = out_before
       \/ /\ out_file.kind = "file"
          /\ out_file.whole
          /\ out_file.exif # NoExif
          /\ out_file.exif = exif_bytes

\* what the claims expect of the resolved highlight and of the record
HighlightName(hl) == IF "base_name" \in DOMAIN hl THEN hl["base_name"] ELSE ""
HighlightAuthor(hl) ==
    IF /\ "_embedded" \in DOMAIN hl
       /\ "creator" \in DOMAIN hl["_embedded"]
       /\ "display_name" \in DOMAIN hl["_embedded"]["creator"]
    THEN hl["_embedded"]["creator"]["display_name"] ELSE ""
RecordName ==
    IF "name" \in DOMAIN args.image_data THEN args.image_data["name"] ELSE args.title
RecordAuthor ==
    IF /\ "_embedded" \in DOMAIN args.image_data
       /\ "creator" \in DOMAIN args.image_data["_embedded"]
       /\ "display_name" \in DOMAIN args.image_data["_embedded"]["creator"]
    THEN args.image_data["_embedded"]["creator"]["display_name"] ELSE args.creator
\* the text is written under key, and an empty text is not written
Written(exif, key, text) ==
    IF text = "" THEN key \notin DOMAIN exif.ifd0
    ELSE key \in DOMAIN exif.ifd0 /\ exif.ifd0[key] = Utf8(text)

\* C4: with a highlight reference and a lookup that succeeded, the metadata
\* carry the highlight's base_name and creator display name ("" when it has
\* none) whatever the record and the defaults held; without a reference the
\* resolver is never called and the record's own values are written.
C4_HighlightOverrides ==
    /\ ~HasHighlight => highlight_calls = 0
    /\ Built =>
         IF HasHighlight
         THEN /\ highlight_calls = 1
              /\ Written(exif_bytes, "ImageDescription", HighlightName(api))
              /\ Written(exif_bytes, "Artist", HighlightAuthor(api))
         ELSE /\ Written(exif_bytes, "ImageDescription", RecordName)
              /\ Written(exif_bytes, "Artist", RecordAuthor)
    /\ pc = "done" => out_file.exif = exif_bytes

C4_Witness ==
    /\ pc = "done"
    /\ HasHighlight
    /\ RecordName = "Foto"
    /\ RecordAuthor = "Ann"
    /\ api = [base_name |-> "Gipfel"]
    /\ out_file.exif.ifd0 = [ImageDescription |-> Utf8("Gipfel")]

\* C5: the metadata block has the description key exactly when the final
\* name is a non-empty string and the author key exactly when the final
\* author is; no key is there with an empty value.
C5_NoEmptyTextKeys ==
    Built =>
        /\ "ImageDescription" \in DOMAIN exif_bytes.ifd0
              <=> self.name \notin {"", PyNone}
        /\ "Artist" \in DOMAIN exif_bytes.ifd0
              <=> self.creator_display_name \notin {"", PyNone}
        /\ \A k \in DOMAIN exif_bytes.ifd0 : exif_bytes.ifd0[k] # Utf8("")

C5_Witness ==
    /\ pc = "done"
    /\ HasHighlight
    /\ RecordName = "Foto"
    /\ RecordAuthor = "Ann"
    /\ api = [base_name |-> "", _embedded |-> [creator |-> EmptyDict]]
    /\ DOMAIN out_file.exif.ifd0 = {}

GpsKeys ==
    {"GPSLatitudeRef", "GPSLatitude", "GPSLongitudeRef", "GPSLongitude",
     "GPSAltitudeRef", "GPSAltitude"}
NoLocationGiven == location_json \in {NoLocation, EmptyDict}

\* C6: the GPS group of the metadata block is empty when the record has no
\* location and has all six fields when it has one, the altitude being 0
\* when the location gives none; it is never filled in part.
C6_GpsGroupAllOrNothing ==
    Built =>
        /\ DOMAIN exif_bytes.GPS \in {{}, GpsKeys}
        /\ NoLocationGiven => DOMAIN exif_bytes.GPS = {}
        /\ ~NoLocationGiven => DOMAIN exif_bytes.GPS = GpsKeys
        /\ (~NoLocationGiven /\ "alt" \notin DOMAIN location_json) =>
              /\ exif_bytes.GPS["GPSAltitudeRef"] = 0
              /\ exif_bytes.GPS["GPSAltitude"] = <<0, 100>>

C6_Witness ==
    /\ pc = "done"
    /\ location_json = [lat |-> Lit(475, 10), lng |-> Lit(1125, 100)]
    /\ DOMAIN out_file.exif.GPS = GpsKeys
    /\ out_file.exif.GPS["GPSLatitude"] = << <<47, 1>>, <<30, 1>>, <<0, 100>> >>
    /\ out_file.exif.GPS["GPSAltitude"] = <<0, 100>>

\* the detection the claim describes: the declared content type decides, and
\* the extension of the stripped URL only when no content type is declared
ClaimedPng ==
    IF "Content-Type" \in DOMAIN server.headers
    THEN Contains(Lower(server.headers["Content-Type"]), "image/png")
    ELSE EndsWith(Lower(_strip_url_params(self.src)), ".png")

\* C10: the payload is re-encoded exactly when it is PNG by the declared
\* content type (by the stripped URL's .png extension when none is declared),
\* and a payload declared image/jpeg reaches the output as the fetched bytes.
C10_ReencodeOnlyPng ==
    pc = "done" =>
        /\ ~out_file.img.orig <=> ClaimedPng
        /\ Get(server.headers, "Content-Type", <<>>) = <<"image/jpeg">>
              => out_file.img = [fmt |-> server.content, orig |-> TRUE]

(***************************************************************************)
(* Properties of _gps_exif and _to_dms_rational (specification GpsSpec)    *)
(***************************************************************************)
Returned == pc = "gps_return" /\ DOMAIN gps_ifd # {}

DmsInRange(t) ==
    /\ t[1][1] >= 0 /\ t[1][2] = 1
    /\ t[2][1] >= 0 /\ t[2][1] < 60 /\ t[2][2] = 1
    /\ t[3][1] >= 0 /\ t[3][1] < 6000 /\ t[3][2] = 100

\* C7: for a latitude in [-90, 90] and a longitude in [-180, 180] the triple
\* has d >= 0, 0 <= m < 60 and seconds in [0, 6000)/100, never a negative
\* part; the sign is in the reference alone: N or E from 0 up, S or W below.
C7_DmsInRangeSignInRef ==
    Returned =>
        /\ DmsInRange(gps_ifd.GPSLatitude)
        /\ DmsInRange(gps_ifd.GPSLongitude)
        /\ gps_ifd.GPSLatitude[1][1] <= 90
        /\ gps_ifd.GPSLongitude[1][1] <= 180
        /\ gps_ifd.GPSLatitudeRef = (IF location_json.lat[1] >= 0 THEN "N" ELSE "S")
        /\ gps_ifd.GPSLongitudeRef = (IF location_json.lng[1] >= 0 THEN "E" ELSE "W")

C7_Witness ==
    /\ Returned
    /\ location_json.lat = Lit(0 - 5399, 60)
    /\ gps_ifd.GPSLatitudeRef = "S"
    /\ gps_ifd.GPSLongitudeRef = "W"
    /\ gps_ifd.GPSLatitude = << <<89, 1>>, <<59, 1>>, <<0, 100>> >>

\* the triple in hundredths of a second, and 360000 times |x| exactly
Centiseconds(t) == 360000 * t[1][1] + 6000 * t[2][1] + t[3][1]
Times360000(x) == BigMulSmall(BigMulSmall(x.mag, 3600), 100)

\* d + m/60 + s/3600 is at most |x| and less than 1/360000 below it
Reconstructs(x, t) ==
    /\ ~BigLess(Times360000(x), BigFromInt(Centiseconds(t)))
    /\ BigLess(Times360000(x), BigFromInt(Centiseconds(t) + 1))

\* C8: for every valid latitude or longitude x the triple reconstructs to a
\* value that is at most |x| and less than 1/360000 degree below |x|.
C8_DmsReconstructs ==
    Returned =>
        /\ Reconstructs(self.location["lat"], gps_ifd.GPSLatitude)
        /\ Reconstructs(self.location["lng"], gps_ifd.GPSLongitude)

Abs(n) == IF n < 0 THEN 0 - n ELSE n

\* C9: a supplied altitude is stored with reference 0 and as
\* (round(altitude*100), 100), the numerator never negative; for an altitude
\* >= 0 with two decimals numerator/100 is the altitude exactly.
C9_AltitudeRounded ==
    (Returned /\ "alt" \in DOMAIN location_json) =>
        LET a == location_json.alt
            num == gps_ifd.GPSAltitude[1]
        IN  /\ gps_ifd.GPSAltitudeRef = 0
            /\ gps_ifd.GPSAltitude[2] = 100
            /\ num >= 0
            /\ 2 * Abs(num * a[2] - 100 * a[1]) <= a[2]
            /\ (a[1] >= 0 /\ 100 % a[2] = 0) => num * a[2] = 100 * a[1]

====
